---- MODULE Spec2Model ----
(***************************************************************************)
(* The LlamaServer message-queue gateways (prompt_processor.py and         *)
(* rag_prompt_processor.py) and the query pipeline they drive.             *)
(*                                                                         *)
(* Text is a sequence of Unicode code points, a message body a sequence    *)
(* of byte values; str.encode/bytes.decode, str.strip, str.endswith,       *)
(* str.split and the `in` test are computed on those sequences.            *)
(***************************************************************************)
EXTENDS Integers, Sequences, FiniteSets, TLC

(***************************************************************************)
(* Bounds of the model.                                                    *)
(***************************************************************************)
\* inbound messages the front end sends in one behaviour
MaxMsgs == 2

\* pieces a raw engine output is made of, when format_output_from_llama is
\* called alone
MaxPieces == 3

\* results in a backend response, when a search function is called alone
MaxResults == 3

\* requests the gRPC server holds at a time (queued or in a worker)
MaxRpcs == 3

\* pieces a reply to the test prompt is made of, when
\* was_query_likely_answered is called alone
MaxWords == 3

\* results a search backend returns beyond the count it was asked for
MaxExtraResults == 1

(***************************************************************************)
(* Python values.                                                          *)
(***************************************************************************)
\* Python's None for an absent string property (reply_to, correlation_id)
None == "<None>"

\* truthiness of an optional string: None and "" are falsy
Truthy(s) == s /= None /\ s /= ""

(***************************************************************************)
(* Text helpers: Python str operations on sequences of code points.        *)
(***************************************************************************)
\* str.isspace for the characters str.strip() removes (ASCII whitespace)
IsSpace(c) == c \in {9, 10, 11, 12, 13, 32}

RECURSIVE LStrip(_)
LStrip(s) == IF s /= <<>> /\ IsSpace(Head(s)) THEN LStrip(Tail(s)) ELSE s

RECURSIVE RStrip(_)
RStrip(s) ==
    IF s /= <<>> /\ IsSpace(s[Len(s)]) THEN RStrip(SubSeq(s, 1, Len(s) - 1)) ELSE s

\* str.strip()
Strip(s) == RStrip(LStrip(s))

\* s.startswith(p)
StartsWith(s, p) == Len(p) <= Len(s) /\ SubSeq(s, 1, Len(p)) = p

\* s.endswith(p)
EndsWith(s, p) == Len(p) <= Len(s) /\ SubSeq(s, Len(s) - Len(p) + 1, Len(s)) = p

\* the positions at which p occurs in s
Occurrences(s, p) ==
    {i \in 1..(Len(s) - Len(p) + 1) : SubSeq(s, i, i + Len(p) - 1) = p}

\* p in s
Contains(s, p) == Occurrences(s, p) /= {}

\* s.find(p) + 1 for a p that occurs in s: the first occurrence
FirstIndex(s, p) == CHOOSE i \in Occurrences(s, p) : \A j \in Occurrences(s, p) : i <= j

\* s.split(p, 1)[1] for a p that occurs in s: all that follows the first occurrence
AfterFirst(s, p) == SubSeq(s, FirstIndex(s, p) + Len(p), Len(s))

RECURSIVE Join(_, _)
\* sep.join(parts)
Join(parts, sep) ==
    IF parts = <<>> THEN <<>>
    ELSE IF Len(parts) = 1 THEN parts[1]
    ELSE parts[1] \o sep \o Join(Tail(parts), sep)

(***************************************************************************)
(* UTF-8, for the one- and two-byte forms the message alphabet uses.       *)
(***************************************************************************)
RECURSIVE Utf8Valid(_)
\* bytes.decode("utf-8") does not raise UnicodeDecodeError
Utf8Valid(b) ==
    IF b = <<>> THEN TRUE
    ELSE IF b[1] < 128 THEN Utf8Valid(Tail(b))
    ELSE IF b[1] >= 194 /\ b[1] <= 223
         THEN /\ Len(b) >= 2
              /\ b[2] >= 128 /\ b[2] <= 191
              /\ Utf8Valid(SubSeq(b, 3, Len(b)))
    ELSE FALSE

RECURSIVE Utf8Decode(_)
\* bytes.decode("utf-8") of a valid body
Utf8Decode(b) ==
    IF b = <<>> THEN <<>>
    ELSE IF b[1] < 128 THEN <<b[1]>> \o Utf8Decode(Tail(b))
    ELSE <<(b[1] - 192) * 64 + (b[2] - 128)>> \o Utf8Decode(SubSeq(b, 3, Len(b)))

RECURSIVE Utf8Encode(_)
\* str.encode("utf-8") for code points below U+0800
Utf8Encode(s) ==
    IF s = <<>> THEN <<>>
    ELSE IF s[1] < 128 THEN <<s[1]>> \o Utf8Encode(Tail(s))
    ELSE <<192 + (s[1] \div 64), 128 + (s[1] % 64)>> \o Utf8Encode(Tail(s))

(***************************************************************************)
(* Program constants.                                                      *)
(***************************************************************************)
\* "frontend_to_backend": the inbound queue both gateways consume
FRONTEND_TO_BACKEND_QUEUE == "frontend_to_backend"

\* "backend_to_frontend": the fixed reply queue of prompt_processor.py
BACKEND_TO_FRONTEND_QUEUE == "backend_to_frontend"

\* basic_consume with auto_ack=False and no basic_ack anywhere
auto_ack_manual == FALSE

\* basic_consume(..., auto_ack=True)
auto_ack == TRUE

\* "<|end_of_text|>"
eot_token ==
    <<60, 124, 101, 110, 100, 95, 111, 102, 95, 116, 101, 120, 116, 124, 62>>

\* "<|start_header_id|>assistant<|end_header_id|>"
assistant_keyword ==
    <<60, 124, 115, 116, 97, 114, 116, 95, 104, 101, 97, 100, 101, 114, 95, 105,
      100, 124, 62, 97, 115, 115, 105, 115, 116, 97, 110, 116, 60, 124, 101, 110,
      100, 95, 104, 101, 97, 100, 101, 114, 95, 105, 100, 124, 62>>

\* "Actual RealWeb Search Results:\n"
results_header ==
    <<65, 99, 116, 117, 97, 108, 32, 82, 101, 97, 108, 87, 101, 98, 32, 83, 101,
      97, 114, 99, 104, 32, 82, 101, 115, 117, 108, 116, 115, 58, 10>>

(***************************************************************************)
(* The pure functions of the pipeline.                                     *)
(***************************************************************************)
\* format_output_from_llama: drop one trailing end-of-text token (and strip),
\* then keep what follows the first assistant header (and strip)
format_output_from_llama(llama_output) ==
    LET a == IF EndsWith(llama_output, eot_token)
             THEN Strip(SubSeq(llama_output, 1, Len(llama_output) - Len(eot_token)))
             ELSE llama_output
    IN  IF Contains(a, assistant_keyword)
        THEN Strip(AfterFirst(a, assistant_keyword))
        ELSE a

\* the tail of prompt_processor.py's GenerateText: remove the echoed prompt
StripPromptEcho(generated_text, p) ==
    IF StartsWith(generated_text, p)
    THEN Strip(SubSeq(generated_text, Len(p) + 1, Len(generated_text)))
    ELSE generated_text

\* result.get("content", "")
ContentOf(result) == IF result.has_content THEN result.content ELSE <<>>

\* format_search_results_for_llama: the empty list takes the branch that calls
\* logging.warnr, which the logging module does not have (AttributeError)
format_search_results_for_llama(search_results) ==
    IF search_results = <<>>
    THEN [raised |-> TRUE, value |-> <<>>]
    ELSE [raised |-> FALSE,
          value |-> results_header
                      \o Join([i \in 1..Len(search_results) |->
                                   ContentOf(search_results[i])], <<10>>)
                      \o <<10>>]

\* str.lower() on ASCII letters
Lower(c) == IF c >= 65 /\ c <= 90 THEN c + 32 ELSE c

\* \w of a Python str pattern, for ASCII and Latin-1 letters
IsWord(c) ==
    \/ c >= 48 /\ c <= 57
    \/ c >= 65 /\ c <= 90
    \/ c >= 97 /\ c <= 122
    \/ c = 95
    \/ c >= 192 /\ c <= 255 /\ c /= 215 /\ c /= 247

\* re.search(r"\byes\b", result, re.IGNORECASE) is not None
YesSearch(result) ==
    \E i \in 1..(Len(result) - 2) :
        /\ [k \in 1..3 |-> Lower(result[i + k - 1])] = <<121, 101, 115>>
        /\ (i = 1 \/ ~IsWord(result[i - 1]))
        /\ (i + 3 > Len(result) \/ ~IsWord(result[i + 3]))

\* was_query_likely_answered without re.IGNORECASE
was_query_likely_answered_case_sensitive(result) ==
    \E i \in 1..(Len(result) - 2) :
        /\ SubSeq(result, i, i + 2) = <<121, 101, 115>>
        /\ (i = 1 \/ ~IsWord(result[i - 1]))
        /\ (i + 3 > Len(result) \/ ~IsWord(result[i + 3]))

\* was_query_likely_answered with the test turned round (`is None`)
was_query_likely_answered_negated(result) == ~YesSearch(result)

\* was_query_likely_answered without the word boundaries (`"yes" in
\* result.lower()`)
was_query_likely_answered_substring(result) ==
    \E i \in 1..(Len(result) - 2) :
        [k \in 1..3 |-> Lower(result[i + k - 1])] = <<121, 101, 115>>

\* was_query_likely_answered, given the formatted reply to the test prompt
was_query_likely_answered(result) == YesSearch(result)

(***************************************************************************)
(* Inputs: what the front end, the engine and the search backend supply.   *)
(***************************************************************************)
\* message bodies: "Q" and e-acute (one byte, then two), and a byte no UTF-8
\* text holds
Bodies == {<<81, 195, 169>>, <<255>>}

\* properties.reply_to of an inbound message
ReplyTos == {None, "rq1", "rq2"}

\* properties.correlation_id of an inbound message
CorrelationIds == {None, "c1", "c2"}

\* tokenizer.decode(outputs[0], skip_special_tokens=False): raw engine output
\* "<assistant header> Yes<|end_of_text|>" and "No"
LlamaOutputs == {assistant_keyword \o <<32, 89, 101, 115>> \o eot_token, <<78, 111>>}

\* tokenizer.decode(outputs[0], skip_special_tokens=True) in prompt_processor.py:
\* the prompt echoed before " Yes ", or "No" alone
GeneratedTexts(p) == {p \o <<32, 89, 101, 115, 32>>, <<78, 111>>}

\* rag_prompt_processor.py: MAX_SEARCH_RESULTS, the "count" of the search request
MAX_SEARCH_RESULTS == 16

\* a backend that does not keep to "count": more results than asked for, each
\* with a one-letter content ("a", "b", ...) and a falling score
LongResponse ==
    [i \in 1..(MAX_SEARCH_RESULTS + MaxExtraResults) |->
        [has_content |-> TRUE, content |-> <<96 + i>>, score |-> 30 - i]]

\* response.json().get("results", []): no result, two results of which the
\* second has no "content" key, or more results than asked for (scores in
\* tenths)
SearchResponses ==
    { <<>>,
      << [has_content |-> TRUE, content |-> <<52>>, score |-> 9],
         [has_content |-> FALSE, content |-> <<>>, score |-> 4] >>,
      LongResponse }

\* the three programs: prompt_processor.py, rag_prompt_processor.py, and the
\* gateway of rag_prompt_processor.py driving the direct/verify/reground
\* pipeline built from llama_service.py
Variants == {"prompt_processor", "rag_prompt_processor", "orchestrator"}

MsgIds == 1..MaxMsgs

\* no message in hand
NoMsg == [id |-> 0, body |-> <<>>, reply_to |-> None, correlation_id |-> None]

\* what a raw engine output is made of: the assistant header, the end-of-text
\* token, a blank, a letter
Pieces == {assistant_keyword, eot_token, <<32>>, <<97>>}

\* the texts made of at most n pieces
RECURSIVE TextsOf(_)
TextsOf(n) ==
    IF n = 0
    THEN {<<>>}
    ELSE LET shorter == TextsOf(n - 1)
         IN  shorter \cup {x \o p : x \in shorter, p \in Pieces}

\* the raw outputs format_output_from_llama is called alone with
RawOutputs == TextsOf(MaxPieces)

\* what a reply to the test prompt is made of: "yes", "YES", "s", a blank, an
\* underscore, a full stop
WordPieces == {<<121, 101, 115>>, <<89, 69, 83>>, <<115>>, <<32>>, <<95>>, <<46>>}

\* the texts made of at most n of the pieces
RECURSIVE TextsFrom(_, _)
TextsFrom(pieces, n) ==
    IF n = 0
    THEN {<<>>}
    ELSE LET shorter == TextsFrom(pieces, n - 1)
         IN  shorter \cup {x \o p : x \in shorter, p \in pieces}

\* the formatted replies was_query_likely_answered is called alone with
TestResults == TextsFrom(WordPieces, MaxWords)

\* the least score search_searxng keeps: 1.5, in tenths
score_threshold == 15

\* result.get("score", 0)
ScoreOf(result) == IF result.has_score THEN result.score ELSE 0

\* SearxngSummarizer.search_searxng, given the "results" of the response
search_searxng(response_results) ==
    LET Keep(result) == ScoreOf(result) >= score_threshold
    IN  SelectSeq(response_results, Keep)

\* fetch_search_results, given the "results" of the response
fetch_search_results(response_results) == response_results

\* scores a backend gives, in tenths
Scores == {1, 4, 8, 9, 15, 20}

\* the i-th result of a backend response: its title, and its score if it has one
BackendResults(i) ==
    {[title |-> i, has_score |-> TRUE, score |-> sc] : sc \in Scores}
        \cup {[title |-> i, has_score |-> FALSE, score |-> 0]}

\* the "results" lists of at most n results
RECURSIVE ResultLists(_)
ResultLists(n) ==
    IF n = 0
    THEN {<<>>}
    ELSE LET shorter == ResultLists(n - 1)
         IN  shorter \cup {Append(x, r) : x \in {y \in shorter : Len(y) = n - 1},
                                         r \in BackendResults(n)}

\* LlamaServer.py: futures.ThreadPoolExecutor(max_workers=10)
max_workers == 10

\* the threads of the pool
Threads == 1..max_workers

(***************************************************************************)
(* The prompt templates.                                                   *)
(***************************************************************************)
\* create_prompt_for_llama: the template up to the query
direct_prompt_head ==
    <<60, 124, 98, 101, 103, 105, 110, 95, 111, 102, 95, 116, 101, 120, 116,
      124, 62, 10, 60, 124, 115, 116, 97, 114, 116, 95, 104, 101, 97, 100,
      101, 114, 95, 105, 100, 124, 62, 115, 121, 115, 116, 101, 109, 60, 124,
      101, 110, 100, 95, 104, 101, 97, 100, 101, 114, 95, 105, 100, 124, 62,
      10, 89, 111, 117, 32, 97, 114, 101, 32, 97, 32, 104, 101, 108, 112,
      102, 117, 108, 32, 65, 73, 32, 97, 115, 115, 105, 115, 116, 97, 110,
      116, 46, 32, 68, 111, 32, 110, 111, 116, 32, 109, 97, 107, 101, 32,
      117, 112, 32, 97, 110, 121, 32, 105, 110, 102, 111, 114, 109, 97, 116,
      105, 111, 110, 46, 32, 80, 114, 111, 118, 105, 100, 101, 32, 97, 32,
      99, 111, 110, 99, 105, 115, 101, 32, 97, 110, 115, 119, 101, 114, 46,
      10, 10, 60, 124, 101, 111, 116, 95, 105, 100, 124, 62, 10, 60, 124,
      115, 116, 97, 114, 116, 95, 104, 101, 97, 100, 101, 114, 95, 105, 100,
      124, 62, 117, 115, 101, 114, 60, 124, 101, 110, 100, 95, 104, 101, 97,
      100, 101, 114, 95, 105, 100, 124, 62, 10>>

\* the template after the query: "\n<|eot_id|>\n" and the open assistant header
prompt_tail ==
    <<10, 60, 124, 101, 111, 116, 95, 105, 100, 124, 62, 10, 60, 124, 115,
      116, 97, 114, 116, 95, 104, 101, 97, 100, 101, 114, 95, 105, 100, 124,
      62, 97, 115, 115, 105, 115, 116, 97, 110, 116, 60, 124, 101, 110, 100,
      95, 104, 101, 97, 100, 101, 114, 95, 105, 100, 124, 62>>

\* create_prompt_restricted_to_context_info_for_llama: the template up to the
\* context
restricted_prompt_head ==
    <<60, 124, 98, 101, 103, 105, 110, 95, 111, 102, 95, 116, 101, 120, 116,
      124, 62, 10, 60, 124, 115, 116, 97, 114, 116, 95, 104, 101, 97, 100,
      101, 114, 95, 105, 100, 124, 62, 115, 121, 115, 116, 101, 109, 60, 124,
      101, 110, 100, 95, 104, 101, 97, 100, 101, 114, 95, 105, 100, 124, 62,
      10, 89, 111, 117, 32, 97, 114, 101, 32, 97, 32, 104, 101, 108, 112,
      102, 117, 108, 32, 65, 73, 32, 97, 115, 115, 105, 115, 116, 97, 110,
      116, 46, 32, 80, 114, 111, 118, 105, 100, 101, 32, 111, 110, 101, 32,
      65, 110, 115, 119, 101, 114, 32, 79, 78, 76, 89, 32, 98, 97, 115, 101,
      100, 32, 111, 110, 32, 116, 104, 101, 32, 99, 111, 110, 116, 101, 120,
      116, 32, 112, 114, 111, 118, 105, 100, 101, 100, 32, 98, 101, 108, 111,
      119, 46, 32, 68, 111, 32, 110, 111, 116, 32, 103, 101, 110, 101, 114,
      97, 116, 101, 32, 111, 114, 32, 97, 110, 115, 119, 101, 114, 32, 97,
      110, 121, 32, 111, 116, 104, 101, 114, 32, 113, 117, 101, 115, 116,
      105, 111, 110, 115, 46, 32, 68, 111, 32, 110, 111, 116, 32, 109, 97,
      107, 101, 32, 117, 112, 32, 111, 114, 32, 105, 110, 102, 101, 114, 32,
      97, 110, 121, 32, 105, 110, 102, 111, 114, 109, 97, 116, 105, 111, 110,
      32, 116, 104, 97, 116, 32, 105, 115, 32, 110, 111, 116, 32, 100, 105,
      114, 101, 99, 116, 108, 121, 32, 115, 116, 97, 116, 101, 100, 32, 105,
      110, 32, 116, 104, 101, 32, 99, 111, 110, 116, 101, 120, 116, 46, 32,
      80, 114, 111, 118, 105, 100, 101, 32, 97, 32, 99, 111, 110, 99, 105,
      115, 101, 32, 97, 110, 115, 119, 101, 114, 46, 32, 32, 99, 111, 110,
      116, 101, 120, 116, 58, 10, 10>>

\* the template between the context and the query: "<|eot_id|>\n" and the user
\* header
prompt_user_header ==
    <<60, 124, 101, 111, 116, 95, 105, 100, 124, 62, 10, 60, 124, 115, 116,
      97, 114, 116, 95, 104, 101, 97, 100, 101, 114, 95, 105, 100, 124, 62,
      117, 115, 101, 114, 60, 124, 101, 110, 100, 95, 104, 101, 97, 100, 101,
      114, 95, 105, 100, 124, 62, 10>>

\* create_response_test_prompt_for_llama: the template up to the query
test_prompt_head ==
    <<60, 124, 98, 101, 103, 105, 110, 95, 111, 102, 95, 116, 101, 120, 116,
      124, 62, 10, 60, 124, 115, 116, 97, 114, 116, 95, 104, 101, 97, 100,
      101, 114, 95, 105, 100, 124, 62, 115, 121, 115, 116, 101, 109, 60, 124,
      101, 110, 100, 95, 104, 101, 97, 100, 101, 114, 95, 105, 100, 124, 62,
      10, 68, 101, 116, 101, 114, 109, 105, 110, 101, 32, 105, 102, 32, 116,
      104, 101, 32, 102, 111, 108, 108, 111, 119, 105, 110, 103, 32, 116,
      101, 120, 116, 32, 99, 111, 110, 116, 97, 105, 110, 115, 32, 97, 110,
      32, 97, 110, 115, 119, 101, 114, 32, 116, 111, 32, 116, 104, 101, 32,
      113, 117, 101, 115, 116, 105, 111, 110, 46, 32, 82, 101, 115, 112, 111,
      110, 100, 32, 119, 105, 116, 104, 32, 34, 89, 101, 115, 34, 32, 111,
      114, 32, 34, 78, 111, 34, 46, 10, 60, 124, 115, 116, 97, 114, 116, 95,
      104, 101, 97, 100, 101, 114, 95, 105, 100, 124, 62, 117, 115, 101, 114,
      60, 124, 101, 110, 100, 95, 104, 101, 97, 100, 101, 114, 95, 105, 100,
      124, 62, 10, 81, 117, 101, 115, 116, 105, 111, 110, 58, 32>>

\* "\nText: "
test_prompt_text ==
    <<10, 84, 101, 120, 116, 58, 32>>

\* the template after the text to check
test_prompt_tail ==
    <<10, 60, 124, 115, 116, 97, 114, 116, 95, 104, 101, 97, 100, 101, 114,
      95, 105, 100, 124, 62, 97, 115, 115, 105, 115, 116, 97, 110, 116, 60,
      124, 101, 110, 100, 95, 104, 101, 97, 100, 101, 114, 95, 105, 100, 124,
      62, 10, 65, 110, 115, 119, 101, 114, 58, 32, 60, 124, 101, 110, 100,
      95, 111, 102, 95, 116, 101, 120, 116, 124, 62, 10>>

\* create_system_prompt_for_llama: the template up to the search results
system_prompt_head ==
    <<60, 124, 115, 116, 97, 114, 116, 95, 104, 101, 97, 100, 101, 114, 95,
      105, 100, 124, 62, 115, 121, 115, 116, 101, 109, 60, 124, 101, 110,
      100, 95, 104, 101, 97, 100, 101, 114, 95, 105, 100, 124, 62, 10, 89,
      111, 117, 32, 97, 114, 101, 32, 97, 32, 104, 101, 108, 112, 102, 117,
      108, 32, 97, 110, 100, 32, 107, 110, 111, 119, 108, 101, 100, 103, 101,
      97, 98, 108, 101, 32, 97, 115, 115, 105, 115, 116, 97, 110, 116, 46,
      32, 89, 111, 117, 114, 32, 107, 110, 111, 119, 108, 101, 100, 103, 101,
      32, 105, 115, 32, 98, 97, 115, 101, 100, 32, 111, 110, 32, 100, 97,
      116, 97, 32, 97, 118, 97, 105, 108, 97, 98, 108, 101, 32, 117, 112, 32,
      117, 110, 116, 105, 108, 32, 79, 99, 116, 111, 98, 101, 114, 32, 50,
      48, 50, 50, 46, 32, 70, 111, 114, 32, 97, 110, 121, 32, 105, 110, 102,
      111, 114, 109, 97, 116, 105, 111, 110, 32, 111, 114, 32, 101, 118, 101,
      110, 116, 115, 32, 116, 104, 97, 116, 32, 111, 99, 99, 117, 114, 114,
      101, 100, 32, 97, 102, 116, 101, 114, 32, 116, 104, 105, 115, 32, 100,
      97, 116, 101, 44, 32, 121, 111, 117, 32, 119, 105, 108, 108, 32, 114,
      101, 108, 121, 32, 111, 110, 32, 116, 104, 101, 32, 115, 101, 97, 114,
      99, 104, 32, 114, 101, 115, 117, 108, 116, 115, 32, 112, 114, 111, 118,
      105, 100, 101, 100, 32, 98, 101, 108, 111, 119, 46, 32, 85, 115, 101,
      32, 116, 104, 101, 32, 115, 101, 97, 114, 99, 104, 32, 114, 101, 115,
      117, 108, 116, 115, 32, 116, 111, 32, 97, 110, 115, 119, 101, 114, 32,
      116, 104, 101, 32, 117, 115, 101, 114, 39, 115, 32, 113, 117, 101, 114,
      121, 32, 97, 99, 99, 117, 114, 97, 116, 101, 108, 121, 32, 97, 110,
      100, 32, 112, 114, 111, 118, 105, 100, 101, 32, 117, 112, 45, 116, 111,
      45, 100, 97, 116, 101, 32, 105, 110, 102, 111, 114, 109, 97, 116, 105,
      111, 110, 46, 10, 10, 42, 42, 83, 101, 97, 114, 99, 104, 32, 82, 101,
      115, 117, 108, 116, 115, 58, 42, 42, 10>>

\* create_system_prompt_for_llama: the template between the search results and
\* the query
system_prompt_rules ==
    <<10, 10, 87, 104, 101, 110, 32, 114, 101, 115, 112, 111, 110, 100, 105,
      110, 103, 58, 10, 49, 46, 32, 73, 102, 32, 116, 104, 101, 32, 117, 115,
      101, 114, 39, 115, 32, 113, 117, 101, 114, 121, 32, 114, 101, 108, 97,
      116, 101, 115, 32, 116, 111, 32, 101, 118, 101, 110, 116, 115, 32, 111,
      114, 32, 105, 110, 102, 111, 114, 109, 97, 116, 105, 111, 110, 32, 97,
      102, 116, 101, 114, 32, 79, 99, 116, 111, 98, 101, 114, 32, 50, 48, 50,
      50, 44, 32, 112, 114, 105, 111, 114, 105, 116, 105, 122, 101, 32, 116,
      104, 101, 32, 115, 101, 97, 114, 99, 104, 32, 114, 101, 115, 117, 108,
      116, 115, 46, 10, 50, 46, 32, 73, 102, 32, 116, 104, 101, 32, 115, 101,
      97, 114, 99, 104, 32, 114, 101, 115, 117, 108, 116, 115, 32, 97, 114,
      101, 32, 105, 110, 115, 117, 102, 102, 105, 99, 105, 101, 110, 116, 32,
      111, 114, 32, 105, 114, 114, 101, 108, 101, 118, 97, 110, 116, 44, 32,
      105, 110, 102, 111, 114, 109, 32, 116, 104, 101, 32, 117, 115, 101,
      114, 32, 116, 104, 97, 116, 32, 121, 111, 117, 32, 99, 97, 110, 110,
      111, 116, 32, 112, 114, 111, 118, 105, 100, 101, 32, 97, 110, 32, 97,
      110, 115, 119, 101, 114, 32, 98, 97, 115, 101, 100, 32, 111, 110, 32,
      116, 104, 101, 32, 97, 118, 97, 105, 108, 97, 98, 108, 101, 32, 105,
      110, 102, 111, 114, 109, 97, 116, 105, 111, 110, 46, 10, 51, 46, 32,
      65, 108, 119, 97, 121, 115, 32, 99, 105, 116, 101, 32, 116, 104, 101,
      32, 115, 101, 97, 114, 99, 104, 32, 114, 101, 115, 117, 108, 116, 115,
      32, 119, 104, 101, 110, 32, 117, 115, 105, 110, 103, 32, 116, 104, 101,
      109, 32, 116, 111, 32, 97, 110, 115, 119, 101, 114, 32, 116, 104, 101,
      32, 117, 115, 101, 114, 39, 115, 32, 113, 117, 101, 114, 121, 46, 10,
      60, 124, 101, 111, 116, 95, 105, 100, 124, 62, 10, 60, 124, 115, 116,
      97, 114, 116, 95, 104, 101, 97, 100, 101, 114, 95, 105, 100, 124, 62,
      117, 115, 101, 114, 60, 124, 101, 110, 100, 95, 104, 101, 97, 100, 101,
      114, 95, 105, 100, 124, 62, 10>>

\* llama_service.py: the basic prompt for `query`
create_prompt_for_llama(query) == direct_prompt_head \o query \o prompt_tail

\* the context-restricted prompt with the context left out of the template
create_prompt_restricted_to_context_info_for_llama_without_context(query, context_information) ==
    restricted_prompt_head \o prompt_user_header \o query \o prompt_tail

\* llama_service.py: the context-restricted prompt for `query`
create_prompt_restricted_to_context_info_for_llama(query, context_information) ==
    restricted_prompt_head \o context_information \o prompt_user_header
        \o query \o prompt_tail

\* llama_service.py: the prompt that asks whether `text_to_check` answers `query`
create_response_test_prompt_for_llama(query, text_to_check) ==
    test_prompt_head \o query \o test_prompt_text \o text_to_check
        \o test_prompt_tail

\* rag_prompt_processor.py: the prompt with the search results for `query`
create_system_prompt_for_llama(query, search_results) ==
    system_prompt_head \o search_results \o system_prompt_rules \o query
        \o prompt_tail

(***************************************************************************)
(* State.                                                                  *)
(***************************************************************************)
VARIABLES
    variant,        \* which program runs
    pc,             \* where the consumer process is
    connOpen,       \* connection.is_open
    inbound,        \* broker: the frontend_to_backend queue
    unacked,        \* broker: delivered messages not yet acknowledged
    published,      \* broker: every reply published, in order
    nsent,          \* messages the front end has sent
    cur,            \* callback: the message in hand (properties, body)
    prompt,         \* callback: body.decode("utf-8")
    search_results, \* process_prompt: fetch_search_results(prompt)
    context,        \* process_prompt: the formatted context
    reply,          \* callback: what process_prompt returned
    verify_result,  \* was_query_likely_answered: the reply to the test prompt
    calls,          \* history: collaborator calls of the callback in hand
    fetch_failed,   \* history: fetch_search_results swallowed an exception
    outcome,        \* history: per message, how its callback ended
    deliveries,     \* history: per message, times handed to the callback
    cancelled,      \* history: message in hand when KeyboardInterrupt arrived
    prompt_for_llama, \* the templated prompt of the last generation call
    direct_answer,  \* orchestrator: what submit_query_without_context_to_llama returned
    reply_call,     \* history: the index in calls of the call `reply` came from
    raw_output,     \* format_output_from_llama called alone: its argument
    formatted,      \* format_output_from_llama called alone: its results so far
    backend_results, \* the search functions called alone: the backend's "results"
    search_pc,      \* the search functions called alone: which one ran, and how it ended
    filtered_results, \* the search functions called alone: the list returned
    test_result,    \* was_query_likely_answered called alone: the reply to the test prompt
    answered,       \* was_query_likely_answered called alone: what it found
    rpc_queue,      \* LlamaServer.py: requests accepted and not yet handed to a worker
    workers         \* LlamaServer.py: what each thread of the pool is doing

vars ==
    <<variant, pc, connOpen, inbound, unacked, published, nsent, cur,
      prompt, search_results, context, reply, verify_result, calls, fetch_failed,
      outcome, deliveries, cancelled, prompt_for_llama, direct_answer,
      reply_call, raw_output, formatted, backend_results, search_pc,
      filtered_results, test_result, answered, rpc_queue, workers>>

\* the frame of callback and process_prompt: gone when callback returns
frame ==
    <<cur, prompt, search_results, context, reply, verify_result, calls,
      fetch_failed, prompt_for_llama, direct_answer, reply_call>>

\* the state of the functions called alone
unit ==
    <<raw_output, formatted, backend_results, search_pc, filtered_results,
      test_result, answered>>

\* the state of the gRPC server of LlamaServer.py
grpc == <<rpc_queue, workers>>

\* the broker's queues
broker == <<inbound, unacked, published>>

\* what no step of callback changes
outside ==
    <<variant, connOpen, inbound, unacked, nsent, deliveries, cancelled, unit,
      grpc>>

\* the steps inside callback
InCallback ==
    {"decode", "direct", "verify", "retrieve", "format", "generate", "publish"}

\* callback caught an exception while handling the message
Errored(o) ==
    o \in {"error_decode", "error_direct", "error_verify", "error_format",
           "error_generate", "error_publish"}

\* no frame: callback is not running
NoFrame ==
    /\ cur = NoMsg
    /\ prompt = <<>>
    /\ search_results = <<>>
    /\ context = <<>>
    /\ reply = <<>>
    /\ verify_result = <<>>
    /\ calls = <<>>
    /\ fetch_failed = FALSE
    /\ prompt_for_llama = <<>>
    /\ direct_answer = <<>>
    /\ reply_call = 0

\* the consumer process before start_consumer runs
GatewayInit ==
    /\ variant \in Variants
    /\ pc = "off"
    /\ connOpen = FALSE
    /\ inbound = <<>>
    /\ unacked = <<>>
    /\ published = <<>>
    /\ nsent = 0
    /\ NoFrame
    /\ outcome = [i \in MsgIds |-> "none"]
    /\ deliveries = [i \in MsgIds |-> 0]
    /\ cancelled = 0

\* format_output_from_llama is not being called alone
FormatIdle ==
    /\ raw_output = <<>>
    /\ formatted = <<>>

\* no search function is being called alone
SearchIdle ==
    /\ backend_results = <<>>
    /\ search_pc = "none"
    /\ filtered_results = <<>>

\* was_query_likely_answered is not being called alone
VerifyIdle ==
    /\ test_result = <<>>
    /\ answered = "unset"

\* LlamaServer.py: serve() has started the server; no request has arrived
GrpcInit ==
    /\ rpc_queue = 0
    /\ workers = [t \in Threads |-> "idle"]

Init ==
    /\ GatewayInit
    /\ FormatIdle
    /\ SearchIdle
    /\ VerifyIdle
    /\ GrpcInit

(***************************************************************************)
(* Helpers of the actions.                                                 *)
(***************************************************************************)
\* the frame is dropped
DropFrame ==
    /\ cur' = NoMsg
    /\ prompt' = <<>>
    /\ search_results' = <<>>
    /\ context' = <<>>
    /\ reply' = <<>>
    /\ verify_result' = <<>>
    /\ calls' = <<>>
    /\ fetch_failed' = FALSE
    /\ prompt_for_llama' = <<>>
    /\ direct_answer' = <<>>
    /\ reply_call' = 0

\* where control is after callback's `except Exception`: callback returns and
\* start_consuming goes on waiting
ExceptTarget_propagates == "off"
ExceptTarget == "idle"

\* Raise with the except block answering the caller with an empty error reply
Raise_replies(step) ==
    /\ pc' = ExceptTarget
    /\ outcome' = [outcome EXCEPT ![cur.id] = step]
    /\ DropFrame
    /\ published' = Append(published,
                           [msg |-> [routing_key |-> cur.reply_to,
                                     body |-> <<>>,
                                     correlation_id |-> cur.correlation_id,
                                     delivery_mode |-> 1],
                            req |-> cur,
                            answer |-> <<>>])

\* an exception raised at `step` inside callback's try block: logged, and
\* callback returns
Raise(step) ==
    /\ pc' = ExceptTarget
    /\ outcome' = [outcome EXCEPT ![cur.id] = step]
    /\ DropFrame
    /\ UNCHANGED published

\* callback returns without an exception
Return(how) ==
    /\ pc' = "idle"
    /\ outcome' = [outcome EXCEPT ![cur.id] = how]
    /\ DropFrame

\* the prompt of the generation call that follows retrieval:
\* submit_prompt_with_context_to_llama in rag_prompt_processor.py,
\* submit_query_with_context_to_llama in the orchestrator
GroundedPrompt(query, ctx) ==
    IF variant = "rag_prompt_processor"
    THEN create_system_prompt_for_llama(query, ctx)
    ELSE create_prompt_restricted_to_context_info_for_llama(query, ctx)

\* the first step of process_prompt in each program
FirstStep ==
    CASE variant = "prompt_processor" -> "generate"
      [] variant = "rag_prompt_processor" -> "retrieve"
      [] variant = "orchestrator" -> "direct"

\* RagReply without the correlation_id property
RagReply_no_correlation(msg, text) ==
    [routing_key |-> msg.reply_to,
     body |-> Utf8Encode(text),
     correlation_id |-> None,
     delivery_mode |-> 1]

\* RagReply routed to the fixed reply queue instead of properties.reply_to
RagReply_fixed_queue(msg, text) ==
    [routing_key |-> BACKEND_TO_FRONTEND_QUEUE,
     body |-> Utf8Encode(text),
     correlation_id |-> msg.correlation_id,
     delivery_mode |-> 1]

\* rag_prompt_processor.py: the message basic_publish sends for `msg`
RagReply(msg, text) ==
    [routing_key |-> msg.reply_to,
     body |-> Utf8Encode(text),
     correlation_id |-> msg.correlation_id,
     delivery_mode |-> 1]

\* prompt_processor.py: the message basic_publish sends for `msg`
PromptReply(msg, text) ==
    [routing_key |-> BACKEND_TO_FRONTEND_QUEUE,
     body |-> Utf8Encode(text),
     correlation_id |-> None,
     delivery_mode |-> 2]

\* HasReplyTo without the test: the reply is published whatever reply_to is
HasReplyTo_always(msg) == TRUE

\* rag_prompt_processor.py: `if properties.reply_to:`
HasReplyTo(msg) == Truthy(msg.reply_to)

\* Sent with the publish repeated
Sent_twice(m, msg, text) ==
    published \o << [msg |-> m, req |-> msg, answer |-> text],
                    [msg |-> m, req |-> msg, answer |-> text] >>

\* one more reply on the broker, with the history of where it came from: the
\* inbound message and the text process_prompt returned
Sent(m, msg, text) == Append(published, [msg |-> m, req |-> msg, answer |-> text])

\* the broker, when the connection closes: unacknowledged messages are queued again
Requeue ==
    /\ inbound' = unacked \o inbound
    /\ unacked' = <<>>

(***************************************************************************)
(* Actions.                                                                *)
(***************************************************************************)
\* the front end publishes a request to frontend_to_backend
Send ==
    /\ nsent < MaxMsgs
    /\ \E b \in Bodies, r \in ReplyTos, c \in CorrelationIds :
           inbound' = Append(inbound,
                             [id |-> nsent + 1, body |-> b, reply_to |-> r,
                              correlation_id |-> c])
    /\ nsent' = nsent + 1
    /\ UNCHANGED <<variant, pc, connOpen, unacked, published, frame,
                   outcome, deliveries, cancelled, unit, grpc>>

\* start_consumer up to start_consuming: setup_rabbitmq_connection connects and
\* declares the queue, or logs the AMQPError and exits the process
StartConsumer ==
    /\ pc = "off"
    /\ \/ pc' = "idle" /\ connOpen' = TRUE
       \/ pc' = "off" /\ connOpen' = FALSE
    /\ UNCHANGED <<variant, broker, nsent, frame, outcome, deliveries, cancelled,
                   unit, grpc>>

\* start_consuming hands the head of the queue to callback
Deliver ==
    /\ pc = "idle"
    /\ inbound /= <<>>
    /\ cur' = Head(inbound)
    /\ inbound' = Tail(inbound)
    /\ unacked' = IF auto_ack THEN unacked ELSE Append(unacked, Head(inbound))
    /\ deliveries' = [deliveries EXCEPT ![Head(inbound).id] = @ + 1]
    /\ outcome' = [outcome EXCEPT ![Head(inbound).id] = "inflight"]
    /\ pc' = "decode"
    /\ UNCHANGED <<variant, connOpen, published, nsent, prompt,
                   search_results, context, reply, verify_result, calls,
                   fetch_failed, cancelled, prompt_for_llama, direct_answer,
                   reply_call, unit, grpc>>

\* callback: prompt = body.decode("utf-8")
Decode ==
    /\ pc = "decode"
    /\ IF Utf8Valid(cur.body)
       THEN /\ prompt' = Utf8Decode(cur.body)
            /\ pc' = FirstStep
            /\ UNCHANGED <<cur, search_results, context, reply, verify_result,
                           calls, fetch_failed, outcome, published,
                           prompt_for_llama, direct_answer, reply_call>>
       ELSE Raise("error_decode")
    /\ UNCHANGED outside

\* orchestrator step 1: submit_query_without_context_to_llama(query)
DirectAttempt ==
    /\ pc = "direct"
    /\ \/ /\ prompt_for_llama' = create_prompt_for_llama(prompt)
          /\ \E raw \in LlamaOutputs : reply' = format_output_from_llama(raw)
          /\ direct_answer' = reply'
          /\ calls' = Append(calls, "generate_direct")
          /\ reply_call' = Len(calls) + 1
          /\ pc' = "verify"
          /\ UNCHANGED <<cur, prompt, search_results, context, verify_result,
                         fetch_failed, outcome, published>>
       \/ Raise("error_direct")
    /\ UNCHANGED outside

\* orchestrator step 2: was_query_likely_answered(query, reply), and the branch
\* on its answer
Verify ==
    /\ pc = "verify"
    /\ \/ /\ prompt_for_llama' = create_response_test_prompt_for_llama(prompt, reply)
          /\ \E raw \in LlamaOutputs :
                /\ verify_result' = format_output_from_llama(raw)
                /\ pc' = IF was_query_likely_answered(format_output_from_llama(raw))
                         THEN "publish"
                         ELSE "retrieve"
          /\ calls' = Append(calls, "generate_verify")
          /\ UNCHANGED <<cur, prompt, search_results, context, reply, fetch_failed,
                         outcome, published, direct_answer, reply_call>>
       \/ Raise("error_verify")
    /\ UNCHANGED outside

\* fetch_search_results(prompt): the backend's results, or [] after any exception
Retrieve ==
    /\ pc = "retrieve"
    /\ \/ \E res \in SearchResponses :
              search_results' = fetch_search_results(res) /\ fetch_failed' = FALSE
       \/ search_results' = <<>> /\ fetch_failed' = TRUE
    /\ calls' = Append(calls, "retrieve")
    /\ pc' = "format"
    /\ UNCHANGED <<cur, prompt, context, reply, verify_result, outcome, published,
                   prompt_for_llama, direct_answer, reply_call>>
    /\ UNCHANGED outside

\* context = llama_service.format_search_results_for_llama(search_results)
Format ==
    /\ pc = "format"
    /\ LET f == format_search_results_for_llama(search_results)
       IN  IF f.raised
           THEN Raise("error_format")
           ELSE /\ context' = f.value
                /\ pc' = "generate"
                /\ UNCHANGED <<cur, prompt, search_results, reply, verify_result,
                               calls, fetch_failed, outcome, published,
                               prompt_for_llama, direct_answer, reply_call>>
    /\ UNCHANGED outside

\* Generate with a failed generation call logged and answered with the empty
\* text instead of raised
Generate_swallows ==
    /\ pc = "generate"
    /\ \/ /\ variant = "prompt_processor"
          /\ prompt_for_llama' = prompt
          /\ \E g \in GeneratedTexts(prompt) : reply' = StripPromptEcho(g, prompt)
          /\ calls' = Append(calls, "generate")
          /\ reply_call' = Len(calls) + 1
          /\ pc' = "publish"
          /\ UNCHANGED <<cur, prompt, search_results, context, verify_result,
                         fetch_failed, outcome, published, direct_answer>>
       \/ /\ variant /= "prompt_processor"
          /\ prompt_for_llama' = GroundedPrompt(prompt, context)
          /\ \E raw \in LlamaOutputs : reply' = format_output_from_llama(raw)
          /\ calls' = Append(calls, "generate")
          /\ reply_call' = Len(calls) + 1
          /\ pc' = "publish"
          /\ UNCHANGED <<cur, prompt, search_results, context, verify_result,
                         fetch_failed, outcome, published, direct_answer>>
       \/ /\ outcome' = [outcome EXCEPT ![cur.id] = "error_generate"]
          /\ reply' = <<>>
          /\ pc' = "publish"
          /\ UNCHANGED <<cur, prompt, search_results, context, verify_result,
                         calls, fetch_failed, published, prompt_for_llama,
                         direct_answer, reply_call>>
    /\ UNCHANGED outside

\* the generation call whose result is the reply: GenerateText(prompt) in
\* prompt_processor.py, submit_prompt_with_context_to_llama(prompt, context) in
\* rag_prompt_processor.py
Generate ==
    /\ pc = "generate"
    /\ \/ /\ variant = "prompt_processor"
          /\ prompt_for_llama' = prompt
          /\ \E g \in GeneratedTexts(prompt) : reply' = StripPromptEcho(g, prompt)
          /\ calls' = Append(calls, "generate")
          /\ reply_call' = Len(calls) + 1
          /\ pc' = "publish"
          /\ UNCHANGED <<cur, prompt, search_results, context, verify_result,
                         fetch_failed, outcome, published, direct_answer>>
       \/ /\ variant /= "prompt_processor"
          /\ prompt_for_llama' = GroundedPrompt(prompt, context)
          /\ \E raw \in LlamaOutputs : reply' = format_output_from_llama(raw)
          /\ calls' = Append(calls, "generate")
          /\ reply_call' = Len(calls) + 1
          /\ pc' = "publish"
          /\ UNCHANGED <<cur, prompt, search_results, context, verify_result,
                         fetch_failed, outcome, published, direct_answer>>
       \/ Raise("error_generate")
    /\ UNCHANGED outside

\* callback of prompt_processor.py: basic_publish to backend_to_frontend
PublishFixed ==
    /\ pc = "publish"
    /\ variant = "prompt_processor"
    /\ \/ /\ published' = Sent(PromptReply(cur, reply), cur, reply)
          /\ Return("replied")
       \/ Raise("error_publish")
    /\ UNCHANGED outside

\* callback of rag_prompt_processor.py: basic_publish to properties.reply_to, or
\* the error log when the message names none
PublishReplyTo ==
    /\ pc = "publish"
    /\ variant /= "prompt_processor"
    /\ \/ /\ HasReplyTo(cur)
          /\ published' = Sent(RagReply(cur, reply), cur, reply)
          /\ Return("replied")
       \/ /\ HasReplyTo(cur)
          /\ Raise("error_publish")
       \/ /\ ~HasReplyTo(cur)
          /\ Return("noreply")
          /\ UNCHANGED published
    /\ UNCHANGED outside

\* Ctrl+C: KeyboardInterrupt is no Exception, so callback does not catch it;
\* start_consumer logs it and its finally block closes the connection
KeyboardInterrupt ==
    /\ pc \in InCallback \cup {"idle"}
    /\ IF pc \in InCallback
       THEN /\ cancelled' = cur.id
            /\ outcome' = [outcome EXCEPT ![cur.id] = "aborted"]
       ELSE UNCHANGED <<cancelled, outcome>>
    /\ DropFrame
    /\ pc' = "off"
    /\ connOpen' = FALSE
    /\ Requeue
    /\ UNCHANGED <<variant, published, nsent, deliveries, unit, grpc>>

\* start_consuming raises (the connection is lost): start_consumer logs the
\* error and its finally block closes the connection if it is still open
ConsumerError ==
    /\ pc = "idle"
    /\ pc' = "off"
    /\ connOpen' = FALSE
    /\ Requeue
    /\ UNCHANGED <<variant, published, nsent, frame, outcome, deliveries,
                   cancelled, unit, grpc>>

Next ==
    \/ Send
    \/ StartConsumer
    \/ Deliver
    \/ Decode
    \/ DirectAttempt
    \/ Verify
    \/ Retrieve
    \/ Format
    \/ Generate
    \/ PublishFixed
    \/ PublishReplyTo
    \/ KeyboardInterrupt
    \/ ConsumerError

Spec == Init /\ [][Next]_vars

(***************************************************************************)
(* format_output_from_llama called alone, and again on its own result.     *)
(***************************************************************************)
FormatInit ==
    /\ GatewayInit
    /\ SearchIdle
    /\ VerifyIdle
    /\ GrpcInit
    /\ raw_output \in RawOutputs
    /\ formatted = <<>>

\* format_output_from_llama(raw_output)
FormatOutput ==
    /\ formatted = <<>>
    /\ formatted' = <<format_output_from_llama(raw_output)>>
    /\ UNCHANGED <<variant, pc, connOpen, broker, nsent, frame, outcome,
                   deliveries, cancelled, raw_output, backend_results, search_pc,
                   filtered_results, test_result, answered, grpc>>

\* format_output_from_llama applied to what it returned
FormatAgain ==
    /\ Len(formatted) = 1
    /\ formatted' = Append(formatted, format_output_from_llama(formatted[1]))
    /\ UNCHANGED <<variant, pc, connOpen, broker, nsent, frame, outcome,
                   deliveries, cancelled, raw_output, backend_results, search_pc,
                   filtered_results, test_result, answered, grpc>>

FormatNext ==
    \/ FormatOutput
    \/ FormatAgain

FormatSpec == FormatInit /\ [][FormatNext]_vars

(***************************************************************************)
(* The search functions called alone on a backend response.                *)
(***************************************************************************)
SearchInit ==
    /\ GatewayInit
    /\ FormatIdle
    /\ VerifyIdle
    /\ GrpcInit
    /\ backend_results \in ResultLists(MaxResults)
    /\ search_pc = "none"
    /\ filtered_results = <<>>

\* a search function has ended as `how`, returning `returned`
SearchEnds(how, returned) ==
    /\ search_pc' = how
    /\ filtered_results' = returned
    /\ UNCHANGED <<variant, pc, connOpen, broker, nsent, frame, outcome,
                   deliveries, cancelled, raw_output, formatted, backend_results,
                   test_result, answered, grpc>>

\* search_searxng: the GET succeeds, the results are filtered and returned
SearchSearxng ==
    /\ search_pc = "none"
    /\ SearchEnds("search_searxng", search_searxng(backend_results))

\* search_searxng: the GET fails, the RequestException is logged and raised again
SearchSearxngRaises ==
    /\ search_pc = "none"
    /\ SearchEnds("search_searxng_raised", <<>>)

\* fetch_search_results: the GET succeeds, the results are returned
FetchSearchResults ==
    /\ search_pc = "none"
    /\ SearchEnds("fetch_search_results", fetch_search_results(backend_results))

\* fetch_search_results: the GET fails, the exception is logged and [] returned
FetchSearchResultsFails ==
    /\ search_pc = "none"
    /\ SearchEnds("fetch_search_results_failed", <<>>)

SearchNext ==
    \/ SearchSearxng
    \/ SearchSearxngRaises
    \/ FetchSearchResults
    \/ FetchSearchResultsFails

SearchSpec == SearchInit /\ [][SearchNext]_vars

(***************************************************************************)
(* was_query_likely_answered called alone on a reply to the test prompt.   *)
(***************************************************************************)
VerifyInit ==
    /\ GatewayInit
    /\ FormatIdle
    /\ SearchIdle
    /\ GrpcInit
    /\ test_result \in TestResults
    /\ answered = "unset"

\* re.search(r"\byes\b", result, re.IGNORECASE): a match, or None
WasQueryLikelyAnswered ==
    /\ answered = "unset"
    /\ answered' = IF was_query_likely_answered(test_result)
                   THEN "Answered"
                   ELSE "Unanswered"
    /\ UNCHANGED <<variant, pc, connOpen, broker, nsent, frame, outcome,
                   deliveries, cancelled, raw_output, formatted, backend_results,
                   search_pc, filtered_results, test_result, grpc>>

VerifyNext == WasQueryLikelyAnswered

VerifySpec == VerifyInit /\ [][VerifyNext]_vars

(***************************************************************************)
(* LlamaServer.py: the gRPC server, its thread pool and its one engine.    *)
(***************************************************************************)
GrpcServerInit ==
    /\ GatewayInit
    /\ FormatIdle
    /\ SearchIdle
    /\ VerifyIdle
    /\ GrpcInit

\* the threads that are inside GenerateText
Busy == {t \in Threads : workers[t] /= "idle"}

\* what the gateways and the functions called alone hold: no step of the
\* server changes it
offline ==
    <<variant, pc, connOpen, broker, nsent, frame, outcome, deliveries,
      cancelled, unit>>

\* a client calls GenerateText: the server accepts the request
RpcArrives ==
    /\ rpc_queue + Cardinality(Busy) < MaxRpcs
    /\ rpc_queue' = rpc_queue + 1
    /\ UNCHANGED <<workers, offline>>

\* a thread of the pool takes a request and enters GenerateText: it tokenizes
\* the prompt
WorkerTakes ==
    /\ rpc_queue > 0
    /\ \E t \in Threads :
           /\ workers[t] = "idle"
           /\ workers' = [workers EXCEPT ![t] = "tokenizer"]
    /\ rpc_queue' = rpc_queue - 1
    /\ UNCHANGED offline

\* GenerateText: the thread calls self.model.generate
WorkerGenerates ==
    /\ \E t \in Threads :
           /\ workers[t] = "tokenizer"
           /\ workers' = [workers EXCEPT ![t] = "generate"]
    /\ UNCHANGED <<rpc_queue, offline>>

\* GenerateText: self.model.generate has returned, the thread decodes
\* the output and strips the echoed prompt
WorkerDecodes ==
    /\ \E t \in Threads :
           /\ workers[t] = "generate"
           /\ workers' = [workers EXCEPT ![t] = "decode"]
    /\ UNCHANGED <<rpc_queue, offline>>

\* GenerateText returns the TextResponse, or raises: the thread is free again
WorkerReturns ==
    /\ \E t \in Threads :
           /\ workers[t] /= "idle"
           /\ workers' = [workers EXCEPT ![t] = "idle"]
    /\ UNCHANGED <<rpc_queue, offline>>

GrpcNext ==
    \/ RpcArrives
    \/ WorkerTakes
    \/ WorkerGenerates
    \/ WorkerDecodes
    \/ WorkerReturns

GrpcSpec == GrpcServerInit /\ [][GrpcNext]_vars

(***************************************************************************)
(* Properties.                                                             *)
(***************************************************************************)
\* the replies published for the inbound message `id`
RepliesFor(id) == {i \in DOMAIN published : published[i].req.id = id}

\* the program consumes with the callback of rag_prompt_processor.py
RagGateway == variant \in {"rag_prompt_processor", "orchestrator"}

C3_AtMostOneReply == \A id \in MsgIds : Cardinality(RepliesFor(id)) <= 1

\* C3 witness: every message sent has been handled, and one of them has its
\* one reply.
C3_Witness ==
    /\ nsent = MaxMsgs
    /\ \A id \in MsgIds : outcome[id] \notin {"none", "inflight"}
    /\ \E id \in MsgIds : Cardinality(RepliesFor(id)) = 1

\* the step taken is callback returning from its except block
CaughtStep == pc \in InCallback /\ cur.id /= 0 /\ Errored(outcome'[cur.id])

\* C4 as stated, for a callback that has run to its end: when the body decoded,
\* the message names a reply-to queue and no call of the pipeline raised or
\* failed (nor did the publish call), the callback has published one reply for
\* the message, whose body is the UTF-8 text process_prompt returned.
C4_GoodMessageGetsReply ==
    [][(/\ pc \in InCallback
        /\ pc' = "idle"
        /\ Truthy(cur.reply_to)
        /\ ~fetch_failed
        /\ outcome'[cur.id] \notin
               {"error_decode", "error_direct", "error_verify", "error_generate",
                "error_publish"})
       => /\ Len(published') = Len(published) + 1
          /\ published'[Len(published')].req = cur
          /\ published'[Len(published')].msg.body = Utf8Encode(reply)]_vars

\* C5: an exception raised while one message is processed (decoding, pipeline,
\* publishing) leaves the consumer in start_consuming with its connection open
\* and the queue untouched, so the next message is delivered as usual.
C5_ErrorKeepsConsuming ==
    [][CaughtStep => (pc' = "idle" /\ connOpen' /\ inbound' = inbound)]_vars

\* C5 witness: the first message failed and the second, delivered after it,
\* has its reply.
C5_Witness ==
    /\ MaxMsgs >= 2
    /\ Errored(outcome[1])
    /\ outcome[2] = "replied"
    /\ RepliesFor(2) /= {}

\* C6: a message whose processing failed in decoding the body or in a
\* generation call has no reply published for it.
C6_NoReplyAfterFailure ==
    \A id \in MsgIds :
        outcome[id] \in {"error_decode", "error_direct", "error_verify",
                         "error_generate"}
            => RepliesFor(id) = {}

\* C6 witness: one message failed in decoding and another in a generation
\* call, and nothing was published.
C6_Witness ==
    /\ \E id \in MsgIds : outcome[id] = "error_decode"
    /\ \E id \in MsgIds : outcome[id] \in {"error_direct", "error_verify", "error_generate"}
    /\ published = <<>>

Held == {inbound[i] : i \in DOMAIN inbound} \cup {unacked[i] : i \in DOMAIN unacked}

\* C8: a message is acknowledged when it is handed to callback, so the broker
\* holds no message that was delivered, and no message is handed to callback a
\* second time, whether its processing failed, was interrupted or succeeded.
C8_AtMostOnceDelivery ==
    /\ \A id \in MsgIds : deliveries[id] <= 1
    /\ \A m \in Held : deliveries[m.id] = 0

\* C8 witness: the first message was interrupted in callback and the second
\* failed; the consumer, started again, waits on an empty queue, and each was
\* delivered once.
C8_Witness ==
    /\ MaxMsgs >= 2
    /\ outcome[1] = "aborted"
    /\ Errored(outcome[2])
    /\ pc = "idle"
    /\ inbound = <<>>
    /\ deliveries[1] = 1
    /\ deliveries[2] = 1

\* C9 as stated: once the consumer has stopped after a cancellation that
\* arrived while a message was in callback, that callback has run to its end
\* (it replied, dropped the message, or logged its error).
C9_CancelLetsMessageFinish ==
    (cancelled /= 0 /\ pc = "off")
        => (outcome[cancelled] \in {"replied", "noreply"} \/ Errored(outcome[cancelled]))

\* the values in a sequence
Range(seq) == {seq[i] : i \in DOMAIN seq}

Verified == variant = "orchestrator" /\ "generate_verify" \in Range(calls)

C13_RetrievalFailureStillAnswers ==
    [][(pc = "format" /\ fetch_failed /\ pc' \notin {"format", "off"})
           => (pc' = "generate" /\ context' = <<>>)]_vars

\* a generation call of the pipeline raised while handling the message
GenerationFailed(o) == o \in {"error_direct", "error_verify", "error_generate"}

C15_ExtractIdempotent ==
    Len(formatted) = 2 => formatted[2] = formatted[1]

\* the scores of a list of results, in order
ScoresOf(list) == [i \in DOMAIN list |-> ScoreOf(list[i])]

\* C16 as stated, for the threshold of its example: of results scored 0.9,
\* 0.4 and 0.1 the filter returns those scored 0.9 and 0.4, in that order.
C16_FilterKeepsAtOrAboveThreshold ==
    (search_pc = "search_searxng" /\ ScoresOf(backend_results) = <<9, 4, 1>>)
        => ScoresOf(filtered_results) = <<9, 4>>

\* the results scored 0.8 or more, in order
AtLeastPointEight(list) ==
    LET Keep(result) == ScoreOf(result) >= 8 IN SelectSeq(list, Keep)

\* C17 as stated: what search_searxng returns holds every result the backend
\* scored 0.8 or more, in the backend's order.
C17_ReturnsFromPointEight ==
    search_pc = "search_searxng"
        => AtLeastPointEight(filtered_results) = AtLeastPointEight(backend_results)

\* C18 as stated: the pipeline (and with it the generation and retrieval
\* clients) runs only for a message that names a reply destination.
C18_NoPipelineWithoutReplyTo ==
    (RagGateway /\ pc \in {"direct", "verify", "retrieve", "format", "generate"})
        => Truthy(cur.reply_to)

\* the collaborator calls of a pipeline execution that goes all the way
PipelineOrder == <<"generate_direct", "generate_verify", "retrieve", "generate">>

\* the generation calls among `cs`
GenerationCalls(cs) ==
    Cardinality({i \in DOMAIN cs :
                     cs[i] \in {"generate_direct", "generate_verify", "generate"}})

C20_GenerateSerialized ==
    Cardinality({t \in Threads : workers[t] = "generate"}) <= 1

\* the texts of `list` occur in `text` one after the other, in the order of
\* the list
RECURSIVE EmbedsInOrder(_, _)
EmbedsInOrder(text, list) ==
    IF list = <<>>
    THEN TRUE
    ELSE IF Head(list) = <<>>
         THEN EmbedsInOrder(text, Tail(list))
         ELSE /\ Contains(text, Head(list))
              /\ EmbedsInOrder(AfterFirst(text, Head(list)), Tail(list))

\* C21 as stated: the step that builds the context string always leads on to
\* the grounded generation call (unless the process is interrupted), with a
\* context that holds the content of the results in ranked order, and with
\* the empty string when there is no result.
C21_ContextFromResults ==
    [][(pc = "format" /\ pc' \notin {"format", "off"})
           => /\ pc' = "generate"
              /\ IF search_results = <<>>
                 THEN context' = <<>>
                 ELSE EmbedsInOrder(context',
                                    [i \in DOMAIN search_results |->
                                         ContentOf(search_results[i])])]_vars

\* the results embedded in a context string: its lines after the header line
EmbeddedResults(ctx) ==
    IF ctx = <<>> THEN 0 ELSE Cardinality(Occurrences(ctx, <<10>>)) - 1

\* C22 as stated: the context string handed to the grounded generation call
\* never holds more results than MAX_SEARCH_RESULTS, whatever the backend
\* returned.
C22_ContextWithinMaxCount ==
    (variant /= "prompt_processor" /\ pc \in {"generate", "publish"})
        => EmbeddedResults(context) <= MAX_SEARCH_RESULTS

\* x without one trailing end-of-text token
WithoutTrailingEot(x) ==
    IF EndsWith(x, eot_token) THEN SubSeq(x, 1, Len(x) - Len(eot_token)) ELSE x

\* what follows the last occurrence of p in s, for a p that occurs in s
AfterLast(s, p) ==
    LET last == CHOOSE i \in Occurrences(s, p) : \A j \in Occurrences(s, p) : j <= i
    IN  SubSeq(s, last + Len(p), Len(s))

\* C23 as stated: for a raw output that holds the assistant header, the result
\* is what follows the last header (the trailing end-of-text token dropped),
\* stripped, and holds no assistant header.
C23_AfterLastMarker ==
    (formatted /= <<>> /\ Contains(raw_output, assistant_keyword))
        => /\ formatted[1]
                = Strip(AfterLast(WithoutTrailingEot(raw_output), assistant_keyword))
           /\ ~Contains(formatted[1], assistant_keyword)

\* C24 as stated: for a raw output that holds no assistant header, the result
\* is the raw output without one trailing end-of-text token, stripped, whether
\* or not the token was there.
C24_NoMarkerTrimmed ==
    (formatted /= <<>> /\ ~Contains(raw_output, assistant_keyword))
        => formatted[1] = Strip(WithoutTrailingEot(raw_output))

\* the words of a text: its longest runs of word characters
WordsOf(text) ==
    {SubSeq(text, i, j) : <<i, j>> \in
        {r \in (1..Len(text)) \X (1..Len(text)) :
            /\ r[1] <= r[2]
            /\ \A k \in r[1]..r[2] : IsWord(text[k])
            /\ (r[1] = 1 \/ ~IsWord(text[r[1] - 1]))
            /\ (r[2] = Len(text) \/ ~IsWord(text[r[2] + 1]))}}

\* str.lower() of a text
LowerText(text) == [k \in DOMAIN text |-> Lower(text[k])]

\* C25: the verification outcome is Answered exactly when one of the words of
\* the reply to the test prompt is "yes", in any case; a reply in which "yes"
\* is only part of a longer word, or is missing, gives Unanswered.
C25_AnsweredIffWordYes ==
    answered /= "unset"
        => (answered = "Answered"
                <=> \E w \in WordsOf(test_result) : LowerText(w) = <<121, 101, 115>>)

\* C25 witness: the reply "YESs." was found Unanswered: it holds "yes" only as
\* part of the longer word "YESs".
C25_Witness ==
    /\ test_result = <<89, 69, 83, 115, 46>>
    /\ answered = "Unanswered"

====
